---- MODULE Spec2Model ----
(***************************************************************************)
(* Model of the Acts vocabulary game: the Page component of                *)
(* src/app/page.tsx (mission, word clicks, click flash, corpus loading,    *)
(* verse extraction) and the /api/na28 proxy route of src/unnamed/part_002.*)
(*                                                                         *)
(* Text is a sequence of code points.  A code point is written by an ASCII *)
(* name: "th" is GREEK SMALL LETTER THETA, "Th" its capital, "oA" is       *)
(* GREEK SMALL LETTER OMICRON WITH TONOS (precomposed), "acute" is         *)
(* COMBINING ACUTE ACCENT, "sp" a space, "nbsp" U+00A0, "nl" a line feed,  *)
(* "s" the final sigma, "sg" the medial sigma, "S" the capital sigma.      *)
(***************************************************************************)
EXTENDS Integers, Sequences, FiniteSets, TLC

NULL == "null"

(***************************** bounds *************************************)
\* most lines in a mission text typed by the user (SpecMission)
MaxLines == 3
\* cap of one key's found-count (SpecGame)
MaxCount == 2
\* cap of one key's found-count in the whole-page Spec
MaxCountPage == 1
\* most click-flash timers pending at once (SpecGame)
MaxTimers == 2
\* most click-flash timers pending at once in the whole-page Spec
MaxTimersPage == 1
\* most characters of a ?chapter= parameter (SpecProxy)
MaxParamLen == 3
\* most top-level nodes of a document body (SpecExtract)
MaxBodyNodes == 3
\* most code points of the local text file (SpecTxt)
MaxTextLen == 4
\* the days a session is followed over (SpecPersist)
MaxDays == 2

(************************ program constants *******************************)
\* chapters of Acts: the loop bound of loadNA28 and the range check of GET
NumChapters == 28
\* out.slice(0, 200) of searchResults
ResultLimit == 200

(***************************************************************************)
(* Unicode: the code points of the model and their properties.             *)
(***************************************************************************)
\* \p{M}: combining marks
IsMark(c) == c = "acute"

\* white space as String.prototype.trim and the regex class \s see it
\* (U+00A0 is white space for both)
IsSpace(c) == c \in {"sp", "nl", "nbsp"}

\* canonical decomposition of one code point
Decomp(c) ==
  CASE c = "oA" -> <<"o", "acute">>
    [] c = "OA" -> <<"O", "acute">>
    [] c = "eA" -> <<"e", "acute">>
    [] OTHER -> <<c>>

\* canonical composition of a base and a following mark; NULL when the pair
\* has no precomposed form (theta + acute stays two code points)
Comp(b, m) ==
  CASE b = "o" /\ m = "acute" -> "oA"
    [] b = "O" /\ m = "acute" -> "OA"
    [] b = "e" /\ m = "acute" -> "eA"
    [] OTHER -> NULL

RECURSIVE NFD(_)
\* String.prototype.normalize("NFD")
NFD(s) == IF s = <<>> THEN <<>> ELSE Decomp(Head(s)) \o NFD(Tail(s))

RECURSIVE Compose(_)
Compose(s) ==
  IF Len(s) < 2 THEN s
  ELSE IF Comp(s[1], s[2]) # NULL
       THEN <<Comp(s[1], s[2])>> \o Compose(Tail(Tail(s)))
       ELSE <<s[1]>> \o Compose(Tail(s))

\* String.prototype.normalize("NFC"): decompose, then compose
NFC(s) == Compose(NFD(s))

RECURSIVE RemoveMarks(_)
\* .replace(/\p{M}+/gu, "")
RemoveMarks(s) ==
  IF s = <<>> THEN <<>>
  ELSE IF IsMark(Head(s)) THEN RemoveMarks(Tail(s))
       ELSE <<Head(s)>> \o RemoveMarks(Tail(s))

normalizeNFC(s) == NFC(s)

stripDiacritics(s) == NFC(RemoveMarks(NFD(s)))

\* a plausible bug: the flag is not looked at
normalizeForCompare_AlwaysStrip(s, ignAcc) == stripDiacritics(normalizeNFC(s))

normalizeForCompare(s, ignAcc) ==
  IF ignAcc THEN stripDiacritics(normalizeNFC(s)) ELSE normalizeNFC(s)

RECURSIVE TrimStart(_)
TrimStart(s) ==
  IF s # <<>> /\ IsSpace(Head(s)) THEN TrimStart(Tail(s)) ELSE s

RECURSIVE TrimEnd(_)
TrimEnd(s) ==
  IF s # <<>> /\ IsSpace(s[Len(s)]) THEN TrimEnd(SubSeq(s, 1, Len(s) - 1)) ELSE s

\* String.prototype.trim
Trim(s) == TrimEnd(TrimStart(s))

RECURSIVE SplitOn(_, _, _)
\* String.prototype.split(sep) for a one-code-point separator: cur is the
\* piece being read; "" splits into one empty piece
SplitOn(s, sep, cur) ==
  IF s = <<>> THEN <<cur>>
  ELSE IF Head(s) = sep THEN <<cur>> \o SplitOn(Tail(s), sep, <<>>)
       ELSE SplitOn(Tail(s), sep, Append(cur, Head(s)))

SplitLines(s) == SplitOn(s, "nl", <<>>)

RECURSIVE JoinWith(_, _)
\* Array.prototype.join(sep)
JoinWith(ss, sep) ==
  IF ss = <<>> THEN <<>>
  ELSE IF Len(ss) = 1 THEN ss[1]
       ELSE ss[1] \o sep \o JoinWith(Tail(ss), sep)

RECURSIVE DedupFirst(_, _)
\* new Set(lines) followed by Array.from: insertion order, first occurrence
DedupFirst(ss, seen) ==
  IF ss = <<>> THEN <<>>
  ELSE IF Head(ss) \in seen THEN DedupFirst(Tail(ss), seen)
       ELSE <<Head(ss)>> \o DedupFirst(Tail(ss), seen \cup {Head(ss)})

RECURSIVE FilterNonEmpty(_)
\* .filter(Boolean) on strings
FilterNonEmpty(ss) ==
  IF ss = <<>> THEN <<>>
  ELSE IF Head(ss) = <<>> THEN FilterNonEmpty(Tail(ss))
       ELSE <<Head(ss)>> \o FilterNonEmpty(Tail(ss))

Range(f) == {f[i] : i \in DOMAIN f}


(***************************************************************************)
(* Verse extraction: extractVersesFromHtml.  A document is the tree that   *)
(* DOMParser hands back, written as the sequence of the body's descendants *)
(* in document order; a node is [kind, tag, value, depth], an element's    *)
(* children being the following nodes one level deeper.  Node 0 is the     *)
(* body, NoNode the null reference.                                        *)
(***************************************************************************)
NoNode == -1

BodyNode == 0

\* characters of String.prototype.slice(0, 40) in the dedup key
PrefixLen == 40

Digits == {"0", "1", "2", "3", "4", "5", "6", "7", "8", "9"}

DigitVal(c) ==
  CASE c = "0" -> 0 [] c = "1" -> 1 [] c = "2" -> 2 [] c = "3" -> 3
    [] c = "4" -> 4 [] c = "5" -> 5 [] c = "6" -> 6 [] c = "7" -> 7
    [] c = "8" -> 8 [] c = "9" -> 9

\* /^\d+$/
AllDigits(s) == s # <<>> /\ \A i \in 1..Len(s) : s[i] \in Digits

\* /^\d{1,3}$/
IsVerseNumber(s) == AllDigits(s) /\ Len(s) <= 3

RECURSIVE DecimalValue(_)
\* Number(s) and parseInt(s, 10) of a string of digits
DecimalValue(s) ==
  IF s = <<>> THEN 0
  ELSE 10 * DecimalValue(SubSeq(s, 1, Len(s) - 1)) + DigitVal(s[Len(s)])

RECURSIVE CollapseSpaces(_)
\* .replace(/\u00a0/g, " ").replace(/\s+/g, " ")
CollapseSpaces(s) ==
  IF s = <<>> THEN <<>>
  ELSE IF IsSpace(Head(s))
       THEN IF Len(s) >= 2 /\ IsSpace(s[2]) THEN CollapseSpaces(Tail(s))
            ELSE <<"sp">> \o CollapseSpaces(Tail(s))
       ELSE <<Head(s)>> \o CollapseSpaces(Tail(s))

cleanText(s) == Trim(CollapseSpaces(s))

NodeDepth(d, i) == IF i = BodyNode THEN 0 ELSE d[i].depth

\* Node.firstChild
FirstChild(d, i) ==
  IF i + 1 <= Len(d) /\ d[i + 1].depth = NodeDepth(d, i) + 1 THEN i + 1 ELSE NoNode

\* Node.nextSibling (the body has none)
NextSibling(d, i) ==
  IF i = BodyNode THEN NoNode
  ELSE LET later == {j \in (i + 1)..Len(d) : d[j].depth <= d[i].depth}
       IN  IF later = {} THEN NoNode
           ELSE LET j == CHOOSE x \in later : \A y \in later : x <= y
                IN  IF d[j].depth = d[i].depth THEN j ELSE NoNode

\* Node.parentNode; above the body (html, the document) nothing has a next
\* sibling, so the climb of nextNode ends there
ParentNode(d, i) ==
  IF i = BodyNode THEN NoNode
  ELSE IF d[i].depth = 1 THEN BodyNode
       ELSE CHOOSE j \in 1..(i - 1) :
              /\ d[j].depth = d[i].depth - 1
              /\ \A k \in (j + 1)..(i - 1) : d[k].depth >= d[i].depth

\* the descendants of node i, in document order
Descendants(d, i) ==
  LET stop == {j \in (i + 1)..Len(d) : d[j].depth <= NodeDepth(d, i)}
      last == IF stop = {} THEN Len(d)
              ELSE (CHOOSE x \in stop : \A y \in stop : x <= y) - 1
  IN  (i + 1)..last

RECURSIVE ConcatText(_, _, _)
ConcatText(d, from, to) ==
  IF from > to THEN <<>>
  ELSE (IF d[from].kind = "text" THEN d[from].value ELSE <<>>)
         \o ConcatText(d, from + 1, to)

\* Node.textContent
textContent(d, i) ==
  IF i # BodyNode /\ d[i].kind = "text" THEN d[i].value
  ELSE LET ds == Descendants(d, i)
       IN  IF ds = {} THEN <<>>
           ELSE ConcatText(d, i + 1, CHOOSE x \in ds : \A y \in ds : y <= x)

\* Element.children.length
ChildElementCount(d, i) ==
  Cardinality({j \in Descendants(d, i) :
                 d[j].depth = NodeDepth(d, i) + 1 /\ d[j].kind = "el"})

isVerseSup(d, i) ==
  /\ d[i].kind = "el"
  /\ d[i].tag = "sup"
  /\ IsVerseNumber(cleanText(textContent(d, i)))

RECURSIVE ClimbToNext(_, _)
\* the while loop of nextNode
ClimbToNext(d, n) ==
  IF n = NoNode THEN NoNode
  ELSE IF NextSibling(d, n) # NoNode THEN NextSibling(d, n)
       ELSE ClimbToNext(d, ParentNode(d, n))

nextNode(d, start) ==
  IF start = NoNode THEN NoNode
  ELSE IF FirstChild(d, start) # NoNode THEN FirstChild(d, start)
       ELSE ClimbToNext(d, start)

RECURSIVE WalkTexts(_, _, _)
\* the while loop of collectTextUntilNextSup
WalkTexts(d, node, texts) ==
  IF node = NoNode THEN texts
  ELSE IF d[node].kind = "el" /\ isVerseSup(d, node) THEN texts
  ELSE LET tx == IF d[node].kind = "text" THEN cleanText(d[node].value)
                 ELSE IF ChildElementCount(d, node) = 0
                      THEN cleanText(textContent(d, node))
                      ELSE <<>>
       IN  WalkTexts(d, nextNode(d, node),
                     IF tx # <<>> THEN Append(texts, tx) ELSE texts)

\* a plausible bug (or the reading "the text after the marker"): the walk
\* starts after the marker's own subtree
collectTextUntilNextSup_AfterMarker(d, sup) ==
  cleanText(JoinWith(WalkTexts(d, ClimbToNext(d, sup), <<>>), <<"sp">>))

collectTextUntilNextSup(d, sup) ==
  cleanText(JoinWith(WalkTexts(d, nextNode(d, sup), <<>>), <<"sp">>))

RECURSIVE SupsFrom(_, _)
\* Array.from(doc.querySelectorAll("sup")).filter(isVerseSup)
SupsFrom(d, i) ==
  IF i > Len(d) THEN <<>>
  ELSE (IF isVerseSup(d, i) THEN <<i>> ELSE <<>>) \o SupsFrom(d, i + 1)

VerseSups(d) == SupsFrom(d, 1)

RECURSIVE PrimaryFrom(_, _)
PrimaryFrom(d, sups) ==
  IF sups = <<>> THEN <<>>
  ELSE LET v == DecimalValue(cleanText(textContent(d, Head(sups))))
           t == collectTextUntilNextSup(d, Head(sups))
       IN  (IF t # <<>> THEN <<[v |-> v, t |-> t]>> ELSE <<>>)
             \o PrimaryFrom(d, Tail(sups))

\* the verses pushed by the primary strategy
PrimaryVerses(d) == PrimaryFrom(d, VerseSups(d))

\* the guard of the fallback block: if (verses.length === 0)
FallbackTaken(d) == PrimaryVerses(d) = <<>>

\* the lookahead (?=\d{1,3}\s) at position i of s
DigitsThenSpaceAt(s, i) ==
  \E n \in 1..3 :
    /\ i + n <= Len(s)
    /\ \A k \in i..(i + n - 1) : s[k] \in Digits
    /\ IsSpace(s[i + n])

RECURSIVE SplitVerses(_, _, _)
\* raw.split(/\s(?=\d{1,3}\s)/g)
SplitVerses(s, i, cur) ==
  IF i > Len(s) THEN <<cur>>
  ELSE IF IsSpace(s[i]) /\ DigitsThenSpaceAt(s, i + 1)
       THEN <<cur>> \o SplitVerses(s, i + 1, <<>>)
       ELSE SplitVerses(s, i + 1, Append(cur, s[i]))

\* p.match(/^(\d{1,3})\s+(.*)$/): the length of the number, 0 for no match
MatchNumberLen(p) ==
  IF \E n \in 1..3 : n < Len(p) /\ AllDigits(SubSeq(p, 1, n)) /\ IsSpace(p[n + 1])
  THEN CHOOSE n \in 1..3 :
         /\ n < Len(p) /\ AllDigits(SubSeq(p, 1, n)) /\ IsSpace(p[n + 1])
  ELSE 0

RECURSIVE FallbackFrom(_)
FallbackFrom(parts) ==
  IF parts = <<>> THEN <<>>
  ELSE LET p == Head(parts)
           n == MatchNumberLen(p)
       IN  (IF n = 0 THEN <<>>
            ELSE <<[v |-> DecimalValue(SubSeq(p, 1, n)),
                    t |-> cleanText(SubSeq(p, n + 1, Len(p)))]>>)
             \o FallbackFrom(Tail(parts))

FallbackVerses(d) ==
  FallbackFrom(SplitVerses(cleanText(textContent(d, BodyNode)), 1, <<>>))

VerseKey(x) == <<x.v, SubSeq(x.t, 1, IF Len(x.t) < PrefixLen THEN Len(x.t) ELSE PrefixLen)>>

RECURSIVE DedupVerses(_, _)
DedupVerses(vs, seen) ==
  IF vs = <<>> THEN <<>>
  ELSE IF VerseKey(Head(vs)) \in seen THEN DedupVerses(Tail(vs), seen)
       ELSE <<Head(vs)>> \o DedupVerses(Tail(vs), seen \cup {VerseKey(Head(vs))})

RECURSIVE InsertByNumber(_, _)
InsertByNumber(sorted, x) ==
  IF sorted = <<>> THEN <<x>>
  ELSE IF Head(sorted).v <= x.v THEN <<Head(sorted)>> \o InsertByNumber(Tail(sorted), x)
       ELSE <<x>> \o sorted

RECURSIVE SortByNumber(_, _)
\* out.sort((a, b) => a.v - b.v): a stable sort
SortByNumber(vs, acc) ==
  IF vs = <<>> THEN acc ELSE SortByNumber(Tail(vs), InsertByNumber(acc, Head(vs)))

extractVersesFromHtml(d) ==
  LET verses == IF FallbackTaken(d) THEN FallbackVerses(d) ELSE PrimaryVerses(d)
  IN  SortByNumber(DedupVerses(verses, {}), <<>>)


(***************************************************************************)
(* tokenizePreserve: the matches of                                        *)
(* /([\p{L}\p{M}]+)|([^\p{L}\p{M}]+)/gu, each a token [kind, value].       *)
(***************************************************************************)
Punctuation == {"-", ",", "."}

\* \p{L}: the letters are the code points of the model that are no mark, no
\* white space, no digit and no punctuation
IsLetter(c) == ~IsMark(c) /\ ~IsSpace(c) /\ c \notin Digits /\ c \notin Punctuation

\* a plausible bug: the word class is [\p{L}]+ and the marks match neither
\* alternative
CharKind_MarksApart(c) ==
  IF IsLetter(c) THEN "word" ELSE IF IsMark(c) THEN "none" ELSE "sep"

\* the alternative of the regular expression a code point can match
CharKind(c) == IF IsLetter(c) \/ IsMark(c) THEN "word" ELSE "sep"

RECURSIVE RunEnd(_, _, _)
\* the last position of the greedy match of kind k that starts at i
RunEnd(text, i, k) ==
  IF i < Len(text) /\ CharKind(text[i + 1]) = k THEN RunEnd(text, i + 1, k) ELSE i

RECURSIVE TokensFrom(_, _)
\* the loop on re.exec(text) from lastIndex i: a position where neither
\* alternative matches is passed over
TokensFrom(text, i) ==
  IF i > Len(text) THEN <<>>
  ELSE IF CharKind(text[i]) = "none" THEN TokensFrom(text, i + 1)
  ELSE LET k == CharKind(text[i])
           j == RunEnd(text, i, k)
       IN  <<[kind |-> k, value |-> SubSeq(text, i, j)]>> \o TokensFrom(text, j + 1)

tokenizePreserve(text) == TokensFrom(text, 1)

(***************************************************************************)
(* State.  A nullable value is a sequence of at most one element: <<>> is  *)
(* null, <<x>> is x.                                                       *)
(***************************************************************************)
VARIABLES
  mounted,        \* Page: the mount effects have run
  mode,           \* Page: "na28" | "txt"
  chapter,        \* Page: the chapter shown
  ignoreAccents,  \* Page
  onlyMission,    \* Page
  missionText,    \* Page: the textarea's text
  search,         \* Page: the search box's text
  lastClick,      \* Page: null or [key, result], the click flash
  foundCounts,    \* Page: comparison key -> hits; a key is absent until found
  timers,         \* the pending window.setTimeout callbacks of onWordClick,
                  \* oldest first, each holding its clickKey
  acts,           \* Page: null or the corpus, chapter -> verses
  loadingActs,    \* Page
  status,         \* Page: the status line
  rawText,        \* Page: the local text
  loadingTxt,     \* Page: also "a loadTxt fetch is pending"
  cache,          \* localStorage["NA28_ACTS_JSON"]: null or the stored corpus
  loadPc,         \* loadNA28: 0, or the chapter whose fetch is awaited
  loadData,       \* loadNA28: the local `data`, chapters 1..loadPc-1
  proxyPc,        \* GET /api/na28: "idle" | "fetching" | "done"
  reqChapter,     \* GET: null or the ?chapter= parameter of the request
  upstreamCalls,  \* GET: upstream requests issued for the request
  upstream,       \* GET: null or what the upstream call came to
  resp,           \* GET: null or the response [status, body]
  doc,            \* extractVersesFromHtml: the parsed document
  exPc,           \* extractVersesFromHtml: "parsed" | "done"
  exFallback,     \* extractVersesFromHtml: the fallback block was entered
  exVerses,       \* extractVersesFromHtml: the returned list
  saved,          \* localStorage["acts_vocab_state_v2"]: null or the session
  savedDay,       \* localStorage["acts_vocab_day_v2"]: null or a day
  today           \* the day todayKey() returns

sessionVars == <<mode, chapter, ignoreAccents, onlyMission, missionText, search,
                 lastClick, foundCounts, timers>>

loadVars == <<acts, loadingActs, status, cache, loadPc, loadData>>

txtVars == <<rawText, loadingTxt>>

storeVars == <<saved, savedDay, today>>

pageVars == <<mounted, sessionVars, loadVars, txtVars, storeVars>>

proxyVars == <<proxyPc, reqChapter, upstreamCalls, upstream, resp>>

extractVars == <<doc, exPc, exFallback, exVerses>>

vars == <<pageVars, proxyVars, extractVars>>

(***************************************************************************)
(* The inputs of the model.                                                *)
(***************************************************************************)
\* two lines of DEFAULT_MISSION: theos and logon
WordTheos == <<"th", "e", "o", "s">>

WordLogon == <<"l", "o", "g", "o", "n">>

DEFAULT_MISSION == <<WordTheos, WordLogon>>

\* the tokens rendered as WordSpan: Theos with a capital theta and an accent,
\* theos with an accent, logon with an accent (precomposed accents, as a
\* corpus in NFC has them); a clickKey is a token's position
Words ==
  << <<"Th", "e", "oA", "s">>, <<"th", "e", "oA", "s">>, <<"l", "oA", "g", "o", "n">> >>

ClickKeys == 1..Len(Words)

\* what the user leaves in the textarea: the example, nothing, and theos
\* typed with a combining accent
MissionTexts ==
  { JoinWith(DEFAULT_MISSION, <<"nl">>), <<>>, <<"th", "e", "o", "acute", "s">> }

\* the lines a mission text of SpecMission is made of: logos, LOGOS in
\* capitals, logos accented (precomposed, and with a combining accent), a
\* blank line, theos between spaces
MissionLines ==
  { <<"l", "o", "g", "o", "s">>, <<"L", "O", "G", "O", "S">>,
    <<"l", "oA", "g", "o", "s">>, <<"l", "o", "acute", "g", "o", "s">>,
    <<"sp">>, <<"sp", "th", "e", "o", "s", "sp">> }

AllMissionTexts ==
  { JoinWith(ls, <<"nl">>) :
      ls \in UNION { [1..n -> MissionLines] : n \in 0..MaxLines } }

SearchTexts == { <<>>, <<"th", "e">> }

\* the chapters picked in the <select>: the first and the last
ChapterPicks == {1, NumChapters}

Txt(s, dp) == [kind |-> "text", tag |-> "", value |-> s, depth |-> dp]

Elem(t, dp) == [kind |-> "el", tag |-> t, value |-> <<>>, depth |-> dp]

\* a chapter page with one verse, and one with no verse at all
HtmlGood == << Elem("sup", 1), Txt(<<"1">>, 2), Txt(<<"a">>, 1) >>

HtmlEmpty == << Txt(<<"a">>, 1) >>

\* SpecSearch: a chapter page with the verses "Theos logon" (capital theta,
\* precomposed accents) and "a"
HtmlGreek ==
  << Elem("sup", 1), Txt(<<"1">>, 2),
     Txt(<<"Th", "e", "oA", "s", "sp", "l", "oA", "g", "o", "n">>, 1),
     Elem("sup", 1), Txt(<<"2">>, 2), Txt(<<"a">>, 1) >>

\* SpecSearch: what the user types in the search box: nothing, a space,
\* theos, Theos with a capital, logon accented between spaces, log with a
\* combining accent, a letter no verse has
SearchQueries ==
  { <<>>, <<"sp">>, <<"th", "e", "o", "s">>, <<"Th", "e", "o", "s">>,
    <<"sp", "l", "oA", "g", "o", "n", "sp">>, <<"l", "o", "acute", "g">>, <<"b">> }

\* the local text file: empty, or two words
TxtFiles == { <<>>, <<"th", "e", "o", "acute", "s", "sp", "l", "o", "g", "o", "n">> }

\* SpecTxt: the code points of a local text file (a letter that takes no
\* precomposed accent, one that does, the accent, a space), and every file
\* of at most MaxTextLen of them
TextChars == {"th", "o", "acute", "sp"}

AllTxtFiles == UNION { [1..n -> TextChars] : n \in 0..MaxTextLen }

\* what a fetch of /api/na28 can come to: a body, a non-ok status (the
\* route's 400, 502 and the framework's 500), a rejected fetch
FetchOk(html) == [kind |-> "ok", http |-> 200, html |-> html]

FetchHttp(st) == [kind |-> "http", http |-> st, html |-> <<>>]

FetchRejected == [kind |-> "rejected", http |-> 0, html |-> <<>>]

\* SpecLoad: every outcome
AllOutcomes ==
  { FetchOk(HtmlGood), FetchOk(HtmlEmpty), FetchHttp(502), FetchHttp(500), FetchRejected }

\* Spec and SpecGame: the route is unreachable or answers 502, so that a
\* corpus comes from the cache only
DownOutcomes == { FetchHttp(502), FetchRejected }

(***************************************************************************)
(* Page: mission set and progress (the useMemo values).                    *)
(***************************************************************************)
MapLines(lines, ignAcc) ==
  [i \in 1..Len(lines) |-> normalizeForCompare(Trim(lines[i]), ignAcc)]

\* Array.from(missionSet): the Set's insertion order
MissionListOf(text, ignAcc) ==
  DedupFirst(FilterNonEmpty(MapLines(SplitLines(text), ignAcc)), {})

missionList == MissionListOf(missionText, ignoreAccents)

missionSet == Range(missionList)

\* foundCounts[w] || 0
CountOf(fc, w) == IF w \in DOMAIN fc THEN fc[w] ELSE 0

\* missionProgress.done
ProgressDone(fc, ml) == Cardinality({w \in Range(ml) : CountOf(fc, w) > 0})

NoCounts == [w \in {} |-> 0]

StatusLine(kind, ch, http) == [kind |-> kind, ch |-> ch, http |-> http]

(***************************************************************************)
(* Page: the search across the corpus (the useMemo values).                *)
(***************************************************************************)
\* String.prototype.includes
Includes(hay, needle) ==
  \E i \in 0..(Len(hay) - Len(needle)) : SubSeq(hay, i + 1, i + Len(needle)) = needle

qNorm == normalizeForCompare(Trim(search), ignoreAccents)

RECURSIVE HitsIn(_, _, _)
\* the inner loop: the verses of chapter ch whose key includes q
HitsIn(verses, ch, q) ==
  IF verses = <<>> THEN <<>>
  ELSE (IF Includes(normalizeForCompare(Head(verses).t, ignoreAccents), q)
        THEN <<[ch |-> ch, v |-> Head(verses).v, t |-> Head(verses).t]>> ELSE <<>>)
         \o HitsIn(Tail(verses), ch, q)

RECURSIVE HitsFrom(_, _, _)
\* the loop on ch
HitsFrom(corpus, ch, q) ==
  IF ch > NumChapters THEN <<>>
  ELSE HitsIn(corpus[ch], ch, q) \o HitsFrom(corpus, ch + 1, q)

searchResults ==
  IF mode # "na28" \/ acts = <<>> \/ qNorm = <<>> THEN <<>>
  ELSE LET out == HitsFrom(acts[1], 1, qNorm)
       IN  SubSeq(out, 1, IF Len(out) < ResultLimit THEN Len(out) ELSE ResultLimit)

(***************************************************************************)
(* Page: construction (the useState defaults).                             *)
(***************************************************************************)
PageConstructed ==
  /\ mounted = FALSE
  /\ mode = "na28"
  /\ chapter = 1
  /\ ignoreAccents = TRUE
  /\ onlyMission = FALSE
  /\ missionText = JoinWith(DEFAULT_MISSION, <<"nl">>)
  /\ search = <<>>
  /\ lastClick = <<>>
  /\ foundCounts = NoCounts
  /\ timers = <<>>
  /\ acts = <<>>
  /\ loadingActs = FALSE
  /\ status = StatusLine("", 0, 0)
  /\ rawText = <<>>
  /\ loadingTxt = FALSE
  /\ loadPc = 0
  /\ loadData = <<>>


(***************************************************************************)
(* Page: loading the corpus.                                               *)
(***************************************************************************)
\* loadNA28 up to its first await.  JSON.stringify / JSON.parse of a corpus
\* (numbers and strings in arrays) give the corpus back.
LoadNA28Begin(force) ==
  IF ~force /\ cache # <<>>
  THEN /\ acts' = cache
       /\ status' = StatusLine("ListoCache", 0, 0)
       /\ loadingActs' = FALSE
       /\ UNCHANGED <<cache, loadPc, loadData>>
  ELSE /\ loadingActs' = TRUE
       /\ status' = StatusLine("Bajando", 1, 0)
       /\ loadPc' = 1
       /\ loadData' = <<>>
       /\ UNCHANGED <<acts, cache>>

\* the effect on [mode]
AutoLoadEffect(m) ==
  IF m = "na28" /\ acts = <<>> /\ ~loadingActs
  THEN LoadNA28Begin(FALSE) /\ UNCHANGED txtVars
  ELSE IF m = "txt" /\ rawText = <<>> /\ ~loadingTxt
       THEN loadingTxt' = TRUE /\ UNCHANGED <<rawText, loadVars>>
       ELSE UNCHANGED <<loadVars, txtVars>>

(***************************************************************************)
(* Page: the session kept in localStorage.  JSON.stringify / JSON.parse of *)
(* the session (strings, booleans, numbers, an object of numbers) give the *)
(* session back; what the restore takes from it is the code's tests.       *)
(***************************************************************************)
\* a first visit: nothing stored
StoreEmpty ==
  /\ saved = <<>>
  /\ savedDay = <<>>
  /\ today = 1

\* the persist effect, run after a render that changed one of its
\* dependencies
PersistEffect ==
  /\ saved' = << [missionText |-> missionText', ignoreAccents |-> ignoreAccents',
                  onlyMission |-> onlyMission', foundCounts |-> foundCounts',
                  mode |-> mode', chapter |-> chapter'] >>
  /\ savedDay' = IF savedDay = <<>> THEN <<today>> ELSE savedDay
  /\ today' = today

\* the restore effect: the setState calls; `if (obj.missionText)` is false
\* for the empty string
RestoreEffect ==
  IF saved = <<>>
  THEN UNCHANGED <<missionText, ignoreAccents, onlyMission, mode, chapter, foundCounts>>
  ELSE /\ missionText' = IF saved[1].missionText # <<>> THEN saved[1].missionText
                         ELSE missionText
       /\ ignoreAccents' = saved[1].ignoreAccents
       /\ onlyMission' = saved[1].onlyMission
       /\ mode' = saved[1].mode
       /\ chapter' = saved[1].chapter
       /\ foundCounts' = IF savedDay = <<today>> THEN saved[1].foundCounts
                         ELSE foundCounts

\* the first render's effects: the restore, the persist effect (with the
\* defaults, then with what was restored: the session stored in the end is
\* the one in memory, the day today's), and the effect on [mode], which runs
\* for the default mode "na28" and again when the restored mode is "txt"
Mount ==
  /\ ~mounted
  /\ mounted' = TRUE
  /\ RestoreEffect
  /\ IF mode' # mode /\ mode' = "txt" /\ rawText = <<>> /\ ~loadingTxt
     THEN /\ LoadNA28Begin(FALSE)
          /\ loadingTxt' = TRUE
          /\ UNCHANGED rawText
     ELSE AutoLoadEffect(mode)
  /\ saved' = << [missionText |-> missionText', ignoreAccents |-> ignoreAccents',
                  onlyMission |-> onlyMission', foundCounts |-> foundCounts',
                  mode |-> mode', chapter |-> chapter'] >>
  /\ savedDay' = <<today>>
  /\ today' = today
  /\ UNCHANGED <<search, lastClick, timers, proxyVars, extractVars>>

\* the page is loaded anew: the component is constructed again, pending
\* timers and fetches are gone with the old document, localStorage stays
Reload ==
  /\ mounted
  /\ mounted' = FALSE
  /\ mode' = "na28"
  /\ chapter' = 1
  /\ ignoreAccents' = TRUE
  /\ onlyMission' = FALSE
  /\ missionText' = JoinWith(DEFAULT_MISSION, <<"nl">>)
  /\ search' = <<>>
  /\ lastClick' = <<>>
  /\ foundCounts' = NoCounts
  /\ timers' = <<>>
  /\ acts' = <<>>
  /\ loadingActs' = FALSE
  /\ status' = StatusLine("", 0, 0)
  /\ rawText' = <<>>
  /\ loadingTxt' = FALSE
  /\ loadPc' = 0
  /\ loadData' = <<>>
  /\ UNCHANGED <<cache, storeVars, proxyVars, extractVars>>

\* midnight: todayKey() returns the next day
DayPasses ==
  /\ today < MaxDays
  /\ today' = today + 1
  /\ UNCHANGED <<mounted, sessionVars, loadVars, txtVars, saved, savedDay,
                 proxyVars, extractVars>>

\* the buttons "Cargar NA28" (force = FALSE) and "Forzar descarga"
LoadNA28Click(force) ==
  /\ mounted
  /\ mode = "na28"
  /\ ~loadingActs
  /\ LoadNA28Begin(force)
  /\ UNCHANGED <<mounted, sessionVars, txtVars, proxyVars, extractVars, storeVars>>

\* a plausible bug: a failed load shows the chapters it had fetched
LoadFails_KeepsPartial(line) ==
  /\ status' = line
  /\ loadingActs' = FALSE
  /\ loadPc' = 0
  /\ loadData' = <<>>
  /\ acts' = <<loadData>>
  /\ UNCHANGED cache

\* a plausible bug: no finally block, the flag stays up after a failure
LoadFails_NoFinally(line) ==
  /\ status' = line
  /\ loadPc' = 0
  /\ loadData' = <<>>
  /\ UNCHANGED <<acts, cache, loadingActs>>

\* the catch and finally blocks of loadNA28
LoadFails(line) ==
  /\ status' = line
  /\ loadingActs' = FALSE
  /\ loadPc' = 0
  /\ loadData' = <<>>
  /\ UNCHANGED <<acts, cache>>

\* loadNA28 from the await of chapter loadPc to its next await or its end
FetchReturns(o) ==
  /\ loadPc > 0
  /\ LET ch == loadPc
         verses == extractVersesFromHtml(o.html)
         data == Append(loadData, verses)
     IN  IF o.kind = "rejected"
         THEN LoadFails(StatusLine("ErrorFetchRejected", 0, 0))
         ELSE IF o.kind = "http"
         THEN LoadFails(StatusLine("ErrorNoPudeBajar", ch, o.http))
         ELSE IF verses = <<>>
         THEN LoadFails(StatusLine("ErrorNoPudeExtraer", ch, 0))
         ELSE IF ch < NumChapters
         THEN /\ loadData' = data
              /\ loadPc' = ch + 1
              /\ status' = StatusLine("Bajando", ch + 1, 0)
              /\ UNCHANGED <<acts, cache, loadingActs>>
         ELSE /\ cache' = <<data>>
              /\ acts' = <<data>>
              /\ status' = StatusLine("Listo", 0, 0)
              /\ loadingActs' = FALSE
              /\ loadPc' = 0
              /\ loadData' = <<>>
  /\ UNCHANGED <<mounted, sessionVars, txtVars, proxyVars, extractVars, storeVars>>

\* the button "Cargar TXT"
LoadTxtClick ==
  /\ mounted
  /\ mode = "txt"
  /\ ~loadingTxt
  /\ loadingTxt' = TRUE
  /\ UNCHANGED <<mounted, sessionVars, rawText, loadVars, proxyVars, extractVars, storeVars>>

\* loadTxt after its awaits: the text is stored in NFC; a rejected fetch
\* leaves only the finally block
TxtReturns(ok, text) ==
  /\ loadingTxt
  /\ rawText' = IF ok THEN NFC(text) ELSE rawText
  /\ loadingTxt' = FALSE
  /\ UNCHANGED <<mounted, sessionVars, loadVars, proxyVars, extractVars, storeVars>>

(***************************************************************************)
(* Page: the event handlers.                                               *)
(***************************************************************************)
onWordClick(word, clickKey) ==
  LET w == normalizeForCompare(word, ignoreAccents)
      ok == w \in missionSet
  IN  /\ lastClick' = << [key |-> clickKey, result |-> IF ok THEN "ok" ELSE "bad"] >>
      /\ foundCounts' =
           IF ok
           THEN [x \in DOMAIN foundCounts \cup {w} |->
                   IF x = w THEN CountOf(foundCounts, w) + 1 ELSE foundCounts[x]]
           ELSE foundCounts
      /\ timers' = Append(timers, clickKey)

\* a click on the token at clickKey, with fewer than maxPending flash
\* timers pending and the clicked key's count below maxCount
WordClick(clickKey, maxPending, maxCount) ==
  /\ mounted
  /\ Len(timers) < maxPending
  /\ CountOf(foundCounts, normalizeForCompare(Words[clickKey], ignoreAccents)) < maxCount
  /\ onWordClick(Words[clickKey], clickKey)
  /\ UNCHANGED <<mounted, mode, chapter, ignoreAccents, onlyMission, missionText,
                 search, loadVars, txtVars, proxyVars, extractVars>>
  /\ PersistEffect

\* a plausible bug: the callback clears the flash whatever key it carries
TimerFires_ClearsAny ==
  /\ timers # <<>>
  /\ lastClick' = <<>>
  /\ timers' = Tail(timers)
  /\ UNCHANGED <<mounted, mode, chapter, ignoreAccents, onlyMission, missionText,
                 search, foundCounts, loadVars, txtVars, proxyVars, extractVars, storeVars>>

\* the callback of window.setTimeout(..., 300): equal delays fire in the
\* order they were set
TimerFires ==
  /\ timers # <<>>
  /\ lastClick' = IF lastClick # <<>> /\ lastClick[1].key = Head(timers)
                  THEN <<>> ELSE lastClick
  /\ timers' = Tail(timers)
  /\ UNCHANGED <<mounted, mode, chapter, ignoreAccents, onlyMission, missionText,
                 search, foundCounts, loadVars, txtVars, proxyVars, extractVars, storeVars>>

\* a plausible bug: the flash is left as it is
resetDay_KeepsFlash ==
  /\ foundCounts' = NoCounts
  /\ lastClick' = lastClick

resetDay ==
  /\ foundCounts' = NoCounts
  /\ lastClick' = <<>>

\* the button "Reiniciar dia"
ResetClick ==
  /\ mounted
  /\ resetDay
  /\ UNCHANGED <<mounted, mode, chapter, ignoreAccents, onlyMission, missionText,
                 search, timers, loadVars, txtVars, proxyVars, extractVars>>
  /\ PersistEffect

\* the textarea, "Cargar ejemplo" and "Limpiar"
SetMissionText(t) ==
  /\ mounted
  /\ missionText' = t
  /\ UNCHANGED <<mounted, mode, chapter, ignoreAccents, onlyMission, search,
                 lastClick, foundCounts, timers, loadVars, txtVars, proxyVars,
                 extractVars>>
  /\ PersistEffect

\* a plausible bug: the toggle clears the ledger, whose keys it changes
SetIgnoreAccents_Clears(b) ==
  /\ mounted
  /\ ignoreAccents' = b
  /\ foundCounts' = NoCounts
  /\ UNCHANGED <<mounted, mode, chapter, onlyMission, missionText, search,
                 lastClick, timers, loadVars, txtVars, proxyVars, extractVars>>
  /\ PersistEffect

SetIgnoreAccents(b) ==
  /\ mounted
  /\ ignoreAccents' = b
  /\ UNCHANGED <<mounted, mode, chapter, onlyMission, missionText, search,
                 lastClick, foundCounts, timers, loadVars, txtVars, proxyVars,
                 extractVars>>
  /\ PersistEffect

SetOnlyMission(b) ==
  /\ mounted
  /\ onlyMission' = b
  /\ UNCHANGED <<mounted, mode, chapter, ignoreAccents, missionText, search,
                 lastClick, foundCounts, timers, loadVars, txtVars, proxyVars,
                 extractVars>>
  /\ PersistEffect

SetSearch(q) ==
  /\ mounted
  /\ search' = q
  /\ UNCHANGED <<mounted, mode, chapter, ignoreAccents, onlyMission, missionText,
                 lastClick, foundCounts, timers, loadVars, txtVars, proxyVars,
                 extractVars, storeVars>>

\* the <select>, shown in mode na28
SetChapter(c) ==
  /\ mounted
  /\ mode = "na28"
  /\ chapter' = c
  /\ UNCHANGED <<mounted, mode, ignoreAccents, onlyMission, missionText, search,
                 lastClick, foundCounts, timers, loadVars, txtVars, proxyVars,
                 extractVars>>
  /\ PersistEffect

\* the buttons "NA28" and "TXT local", and the effect on [mode] that a
\* changed mode runs
SetMode(m) ==
  /\ mounted
  /\ mode' = m
  /\ IF m # mode THEN AutoLoadEffect(m) ELSE UNCHANGED <<loadVars, txtVars>>
  /\ UNCHANGED <<mounted, chapter, ignoreAccents, onlyMission, missionText, search,
                 lastClick, foundCounts, timers, proxyVars, extractVars>>
  /\ PersistEffect


(***************************************************************************)
(* The proxy route GET /api/na28?chapter=.                                 *)
(***************************************************************************)
ParamChars == {"0", "1", "2", "9", "a", "-"}

\* searchParams.get("chapter"): null, or a string of at most MaxParamLen
ChapterParams ==
  { <<>> } \cup
  { <<q>> : q \in UNION { [1..n -> ParamChars] : n \in 0..MaxParamLen } }

\* what the upstream fetch can come to: a page, a non-ok status, a rejection
UpstreamOutcomes ==
  { [kind |-> "ok", http |-> 200], [kind |-> "http", http |-> 404],
    [kind |-> "http", http |-> 503], [kind |-> "rejected", http |-> 0] }

\* Response.ok
ResOk(o) == o.http >= 200 /\ o.http <= 299

Response(st, err, up) == [status |-> st, error |-> err, upstreamStatus |-> up]

\* !chapter || !/^\d+$/.test(chapter), negated
ChapterWellFormed(q) == q # <<>> /\ q[1] # <<>> /\ AllDigits(q[1])

\* a plausible bug: chapter 0 passes
ChapterInRange_FromZero(ch) == ~(ch < 0 \/ ch > NumChapters)

\* ch < 1 || ch > 28, negated
ChapterInRange(ch) == ~(ch < 1 \/ ch > NumChapters)

ProxyIdle ==
  /\ proxyPc = "idle"
  /\ reqChapter = <<>>
  /\ upstreamCalls = 0
  /\ upstream = <<>>
  /\ resp = <<>>

\* GET up to its await of the upstream fetch
ProxyGet(q) ==
  /\ proxyPc = "idle"
  /\ reqChapter' = q
  /\ IF ~ChapterWellFormed(q)
     THEN /\ resp' = << Response(400, "Missing or invalid ?chapter=", 0) >>
          /\ proxyPc' = "done"
          /\ UNCHANGED upstreamCalls
     ELSE IF ~ChapterInRange(DecimalValue(q[1]))
     THEN /\ resp' = << Response(400, "Chapter must be 1..28", 0) >>
          /\ proxyPc' = "done"
          /\ UNCHANGED upstreamCalls
     ELSE /\ upstreamCalls' = upstreamCalls + 1
          /\ proxyPc' = "fetching"
          /\ UNCHANGED resp
  /\ UNCHANGED <<upstream, pageVars, extractVars>>

\* GET after the await.  A rejected fetch is an exception that GET does not
\* catch: the route handler ends without a response of its own and the
\* framework answers 500.
UpstreamReturns(o) ==
  /\ proxyPc = "fetching"
  /\ upstream' = <<o>>
  /\ resp' = IF o.kind = "rejected" THEN << Response(500, "unhandled", 0) >>
             ELSE IF ~ResOk(o) THEN << Response(502, "Upstream HTTP", o.http) >>
             ELSE << Response(200, "", o.http) >>
  /\ proxyPc' = "done"
  /\ UNCHANGED <<reqChapter, upstreamCalls, pageVars, extractVars>>

\* the next request starts from scratch
ProxyNextRequest ==
  /\ proxyPc = "done"
  /\ proxyPc' = "idle"
  /\ reqChapter' = <<>>
  /\ upstreamCalls' = 0
  /\ upstream' = <<>>
  /\ resp' = <<>>
  /\ UNCHANGED <<pageVars, extractVars>>

(***************************************************************************)
(* extractVersesFromHtml as steps: the primary loop, then the fallback     *)
(* block with the dedup and the sort.                                      *)
(***************************************************************************)
\* the subtrees a body of SpecExtract is made of: text, blank text, the
\* markers <sup>1</sup> and <sup>2</sup>, <sup>a</sup>, <span>b</span>,
\* <p><sup>1</sup>a</p>, <sup><sup>1</sup></sup>, and the text "5 a"
BodyItems ==
  { << Txt(<<"a">>, 1) >>,
    << Txt(<<"nbsp", "sp">>, 1) >>,
    << Elem("sup", 1), Txt(<<"1">>, 2) >>,
    << Elem("sup", 1), Txt(<<"sp", "2">>, 2) >>,
    << Elem("sup", 1), Txt(<<"a">>, 2) >>,
    << Elem("span", 1), Txt(<<"b">>, 2) >>,
    << Elem("p", 1), Elem("sup", 2), Txt(<<"1">>, 3), Txt(<<"a">>, 2) >>,
    << Elem("sup", 1), Elem("sup", 2), Txt(<<"1">>, 3) >>,
    << Txt(<<"5", "sp", "a">>, 1) >> }

Docs ==
  { JoinWith(items, <<>>) :
      items \in UNION { [1..n -> BodyItems] : n \in 0..MaxBodyNodes } }

ExtractIdle ==
  /\ doc = <<>>
  /\ exPc = "idle"
  /\ exFallback = FALSE
  /\ exVerses = <<>>

\* the loop over sups
ExtractPrimary ==
  /\ exPc = "parsed"
  /\ exVerses' = PrimaryVerses(doc)
  /\ exPc' = "collected"
  /\ UNCHANGED <<doc, exFallback, pageVars, proxyVars>>

\* the fallback block, the dedup and the sort
ExtractFinish ==
  /\ exPc = "collected"
  /\ exFallback' = FallbackTaken(doc)
  /\ exVerses' = extractVersesFromHtml(doc)
  /\ exPc' = "done"
  /\ UNCHANGED <<doc, pageVars, proxyVars>>

(***************************************************************************)
(* Specifications.                                                         *)
(***************************************************************************)
RECURSIVE CorpusUpTo(_)
CorpusUpTo(ch) ==
  IF ch = 0 THEN <<>> ELSE Append(CorpusUpTo(ch - 1), extractVersesFromHtml(HtmlGood))

\* a corpus as a completed load of an earlier visit stored it
FullCorpus == CorpusUpTo(NumChapters)

\* the page on a visit with or without a cached corpus
Init ==
  /\ PageConstructed
  /\ StoreEmpty
  /\ cache \in { <<>>, <<FullCorpus>> }
  /\ ProxyIdle
  /\ ExtractIdle

\* the whole page, the route unreachable
Next ==
  \/ Mount
  \/ \E k \in ClickKeys : WordClick(k, MaxTimersPage, MaxCountPage)
  \/ TimerFires
  \/ ResetClick
  \/ \E t \in MissionTexts : SetMissionText(t)
  \/ \E b \in BOOLEAN : SetIgnoreAccents(b)
  \/ \E b \in BOOLEAN : SetOnlyMission(b)
  \/ \E q \in SearchTexts : SetSearch(q)
  \/ \E c \in ChapterPicks : SetChapter(c)
  \/ \E m \in {"na28", "txt"} : SetMode(m)
  \/ \E f \in BOOLEAN : LoadNA28Click(f)
  \/ \E o \in DownOutcomes : FetchReturns(o)
  \/ LoadTxtClick
  \/ \E ok \in BOOLEAN, t \in TxtFiles : TxtReturns(ok, t)

Spec == Init /\ [][Next]_vars

InitGame ==
  /\ PageConstructed
  /\ StoreEmpty
  /\ cache = <<>>
  /\ ProxyIdle
  /\ ExtractIdle

\* the game: clicks, flash timers, reset and the mission
NextGame ==
  \/ Mount
  \/ \E k \in ClickKeys : WordClick(k, MaxTimers, MaxCount)
  \/ TimerFires
  \/ ResetClick
  \/ \E t \in MissionTexts : SetMissionText(t)
  \/ \E b \in BOOLEAN : SetIgnoreAccents(b)

SpecGame == InitGame /\ [][NextGame]_vars

\* the mission set over every mission text of at most MaxLines lines
NextMission ==
  \/ Mount
  \/ \E t \in AllMissionTexts : SetMissionText(t)
  \/ \E b \in BOOLEAN : SetIgnoreAccents(b)

SpecMission == InitGame /\ [][NextMission]_vars

\* corpus loading under every outcome of a fetch
NextLoad ==
  \/ Mount
  \/ \E m \in {"na28", "txt"} : SetMode(m)
  \/ \E f \in BOOLEAN : LoadNA28Click(f)
  \/ \E o \in AllOutcomes : FetchReturns(o)
  \/ LoadTxtClick
  \/ \E ok \in BOOLEAN, t \in TxtFiles : TxtReturns(ok, t)

SpecLoad == Init /\ [][NextLoad]_vars

\* a pending fetch settles: the promise of fetch() is resolved or rejected
\* by the browser in the end, and the continuation of the await then runs
SpecLoadFair ==
  /\ SpecLoad
  /\ WF_vars(\E o \in AllOutcomes : FetchReturns(o))
  /\ WF_vars(\E ok \in BOOLEAN, t \in TxtFiles : TxtReturns(ok, t))

InitProxy ==
  /\ PageConstructed
  /\ StoreEmpty
  /\ cache = <<>>
  /\ ProxyIdle
  /\ ExtractIdle

NextProxy ==
  \/ \E q \in ChapterParams : ProxyGet(q)
  \/ \E o \in UpstreamOutcomes : UpstreamReturns(o)
  \/ ProxyNextRequest

SpecProxy == InitProxy /\ [][NextProxy]_vars

InitExtract ==
  /\ PageConstructed
  /\ StoreEmpty
  /\ cache = <<>>
  /\ ProxyIdle
  /\ doc \in Docs
  /\ exPc = "parsed"
  /\ exFallback = FALSE
  /\ exVerses = <<>>

NextExtract ==
  \/ ExtractPrimary
  \/ ExtractFinish

SpecExtract == InitExtract /\ [][NextExtract]_vars

\* the local text under every file of at most MaxTextLen code points, the
\* fetch of the first chapter pending
NextTxt ==
  \/ Mount
  \/ \E m \in {"na28", "txt"} : SetMode(m)
  \/ LoadTxtClick
  \/ \E ok \in BOOLEAN, t \in AllTxtFiles : TxtReturns(ok, t)

SpecTxt == InitGame /\ [][NextTxt]_vars

\* a corpus whose first chapter is the page HtmlGreek
GreekCorpus == <<extractVersesFromHtml(HtmlGreek)>> \o Tail(FullCorpus)

InitSearch ==
  /\ PageConstructed
  /\ StoreEmpty
  /\ cache = <<GreekCorpus>>
  /\ ProxyIdle
  /\ ExtractIdle

\* the search box over a cached corpus
NextSearch ==
  \/ Mount
  \/ \E q \in SearchQueries : SetSearch(q)
  \/ \E b \in BOOLEAN : SetIgnoreAccents(b)
  \/ \E b \in BOOLEAN : SetOnlyMission(b)
  \/ \E c \in ChapterPicks : SetChapter(c)
  \/ \E m \in {"na28", "txt"} : SetMode(m)

SpecSearch == InitSearch /\ [][NextSearch]_vars

\* the session over reloads and days, the corpus cached
InitPersist ==
  /\ PageConstructed
  /\ StoreEmpty
  /\ cache = <<FullCorpus>>
  /\ ProxyIdle
  /\ ExtractIdle

NextPersist ==
  \/ Mount
  \/ Reload
  \/ DayPasses
  \/ \E k \in ClickKeys : WordClick(k, MaxTimersPage, MaxCountPage)
  \/ TimerFires
  \/ ResetClick
  \/ \E t \in MissionTexts : SetMissionText(t)
  \/ \E b \in BOOLEAN : SetIgnoreAccents(b)
  \/ \E c \in ChapterPicks : SetChapter(c)
  \/ \E m \in {"na28", "txt"} : SetMode(m)

SpecPersist == InitPersist /\ [][NextPersist]_vars


(***************************************************************************)
(* The terms of the specification's statements.                            *)
(***************************************************************************)
LowerOf(c, final) ==
  CASE c = "Th" -> "th" [] c = "L" -> "l" [] c = "G" -> "g" [] c = "O" -> "o"
    [] c = "OA" -> "oA" [] c = "S" -> (IF final THEN "s" ELSE "sg")
    [] OTHER -> c

\* lowercasing, a capital sigma at the end of a word becoming a final sigma
ToLower(s) ==
  [i \in 1..Len(s) |-> LowerOf(s[i], i = Len(s) \/ IsSpace(s[i + 1]))]

\* the comparison key of the specification: canonicalize, lowercase, strip
\* the marks when accents are ignored, trim
ComparisonKey(s, ignAcc) ==
  LET low == ToLower(NFC(s))
  IN  Trim(IF ignAcc THEN NFC(RemoveMarks(NFD(low))) ELSE low)

\* the mission keys of the specification: one per non-blank line
MissionKeys(text, ignAcc) ==
  LET lines == SplitLines(text)
  IN  {ComparisonKey(lines[i], ignAcc) : i \in 1..Len(lines)} \ {<<>>}

\* the step is a click on the token at clickKey: its timer joins the queue
Clicked(clickKey) == timers' = Append(timers, clickKey)

\* the found state over the mission set
FoundStateOver(fc, ml) ==
  IF ProgressDone(fc, ml) = 0 THEN "empty"
  ELSE IF ProgressDone(fc, ml) = Len(ml) THEN "fully-found"
  ELSE "partially-found"

FoundStateOf(fc, text, ignAcc) ==
  CHOOSE st \in {FoundStateOver(fc, ml) : ml \in {MissionListOf(text, ignAcc)}} : TRUE

FoundState == FoundStateOf(foundCounts, missionText, ignoreAccents)

(***************************************************************************)
(* C1.  A word click is a match exactly when the word's comparison key     *)
(* (canonicalized, lowercased, marks stripped when accents are ignored) is *)
(* in the mission set, and a match adds 1 to that key's found-count.       *)
(* Stated as written; the code does not lowercase, so a click on Theos     *)
(* with a capital theta is no match for the mission line theos.            *)
(***************************************************************************)
C1_ClickMatchesByComparisonKey ==
  [][\A k \in ClickKeys :
       Clicked(k) =>
         LET key == ComparisonKey(Words[k], ignoreAccents)
             hit == key \in MissionKeys(missionText, ignoreAccents)
         IN  /\ (lastClick'[1].result = "ok") <=> hit
             /\ hit => CountOf(foundCounts', key) = CountOf(foundCounts, key) + 1]_vars

(***************************************************************************)
(* C2.  The mission set has exactly one entry per comparison key of the    *)
(* non-blank lines: lines that differ only in letter case are one entry.   *)
(* Stated as written; the code keeps logos and LOGOS apart.                *)
(***************************************************************************)
C2_MissionDedupByComparisonKey ==
  Cardinality(missionSet) = Cardinality(MissionKeys(missionText, ignoreAccents))

(***************************************************************************)
(* C3.  A reset leaves the ledger empty and the click flash null, whatever *)
(* clicks came before and whatever timers are pending; and a pending timer *)
(* that fires afterwards does not bring either back: the cleared state     *)
(* lasts until the next click.                                             *)
(***************************************************************************)
Cleared == foundCounts = NoCounts /\ lastClick = <<>>

C3_ResetClears ==
  [][/\ ResetClick => Cleared'
     /\ (Cleared /\ ~(\E k \in ClickKeys : Clicked(k))) => Cleared']_vars

\* a reset has cleared the flash with MaxTimers timers still pending: the
\* flash of the latest click is null before its timer fired
C3_Witness ==
  /\ Cleared
  /\ Len(timers) = MaxTimers
  /\ timers[1] # timers[2]

(***************************************************************************)
(* C4.  As written: the found state over the mission set and the ledger    *)
(* change only by a matching click or by a reset.                          *)
(***************************************************************************)
MatchingClick ==
  \E k \in ClickKeys :
    LET w == normalizeForCompare(Words[k], ignoreAccents)
    IN  /\ Clicked(k)
        /\ w \in missionSet
        /\ lastClick'[1].result = "ok"
        /\ foundCounts' = [x \in DOMAIN foundCounts \cup {w} |->
                             IF x = w THEN CountOf(foundCounts, w) + 1
                             ELSE foundCounts[x]]

ResetToEmpty == ResetClick /\ foundCounts' = NoCounts

\* the step changes the found state over the mission set
FoundStateChanges ==
  \E fc \in {foundCounts'}, text \in {missionText'}, ignAcc \in {ignoreAccents'} :
    FoundStateOf(fc, text, ignAcc) # FoundState

C4_OnlyMatchOrResetChangeFoundState ==
  [][(foundCounts' # foundCounts \/ FoundStateChanges)
       => (MatchingClick \/ ResetToEmpty)]_vars

(***************************************************************************)
(* C4, amended.  The ledger changes only by a matching click, which adds 1 *)
(* to the clicked key, or by a reset, which empties it; the found state    *)
(* over the mission set changes only with the ledger or with the mission   *)
(* set (an edit of the mission text, a toggle of ignoreAccents).           *)
(***************************************************************************)
C4_LedgerChangesByMatchOrReset ==
  [][/\ foundCounts' # foundCounts => (MatchingClick \/ ResetToEmpty)
     /\ FoundStateChanges =>
          \/ foundCounts' # foundCounts
          \/ missionText' # missionText
          \/ ignoreAccents' # ignoreAccents]_vars

\* the ledger holds hits while every other operation has acted
C4_Witness ==
  /\ FoundState = "fully-found"
  /\ missionText # JoinWith(DEFAULT_MISSION, <<"nl">>)
  /\ ~ignoreAccents
  /\ onlyMission
  /\ search # <<>>
  /\ chapter = NumChapters
  /\ mode = "txt"
  /\ acts # <<>>
  /\ rawText # <<>>
  /\ lastClick # <<>> /\ lastClick[1].result = "bad"


(***************************************************************************)
(* C5.  A request whose chapter parameter is missing, is not a number or   *)
(* is outside 1..28 is answered 400, and no upstream request is issued     *)
(* for it.                                                                 *)
(***************************************************************************)
InvalidChapter(q) ==
  \/ q = <<>>
  \/ ~AllDigits(q[1])
  \/ DecimalValue(q[1]) \notin 1..NumChapters

C5_InvalidChapterRejected ==
  (proxyPc # "idle" /\ InvalidChapter(reqChapter)) =>
    /\ proxyPc = "done"
    /\ resp[1].status = 400
    /\ upstreamCalls = 0

\* chapter 29 was answered 400 without an upstream call
C5_Witness ==
  /\ proxyPc = "done"
  /\ reqChapter = << <<"2", "9">> >>
  /\ resp[1].status = 400
  /\ upstreamCalls = 0

(***************************************************************************)
(* C6.  Every request ends in 200 with the markup, 400, or 502, and every  *)
(* upstream failure for a valid chapter (a non-success status or a failed  *)
(* call) yields 502.  Stated as written; a failed upstream call is an      *)
(* exception GET does not catch, and the request ends in 500.              *)
(***************************************************************************)
C6_ThreeOutcomes ==
  proxyPc = "done" =>
    /\ resp[1].status \in {200, 400, 502}
    /\ (upstream # <<>> /\ (upstream[1].kind = "rejected" \/ ~ResOk(upstream[1])))
         => resp[1].status = 502
    /\ resp[1].status = 200 <=> (upstream # <<>> /\ upstream[1].kind = "ok")

(***************************************************************************)
(* C7.  A corpus that loadNA28 has put in memory or in the cache holds     *)
(* every chapter 1..28, each with at least one verse; a load that hits a   *)
(* chapter with no verse stores nothing.                                   *)
(***************************************************************************)
CompleteCorpus(store) ==
  store # <<>> =>
    /\ DOMAIN store[1] = 1..NumChapters
    /\ \A ch \in 1..NumChapters : store[1][ch] # <<>>

C7_StoredCorpusIsComplete ==
  /\ [](CompleteCorpus(acts) /\ CompleteCorpus(cache))
  /\ [][(loadPc > 0 /\ status'.kind = "ErrorNoPudeExtraer")
          => UNCHANGED <<acts, cache>>]_vars

\* a load got past chapter 1, hit a chapter with no verse, and nothing is
\* in memory or in the cache
C7_Witness ==
  /\ status.kind = "ErrorNoPudeExtraer"
  /\ status.ch > 1
  /\ acts = <<>>
  /\ cache = <<>>

(***************************************************************************)
(* C8.  When the fetch (a non-ok HTTP status) or the extraction of chapter  *)
(* k fails during a load, the status text names chapter k, with the HTTP   *)
(* status for a fetch failure, and the chapters already retrieved remain   *)
(* available.  Stated as written; the code drops the chapters fetched so   *)
(* far.                                                                    *)
(***************************************************************************)
LoadErrors == {"ErrorNoPudeBajar", "ErrorNoPudeExtraer"}

C8_FailureLabelledAndChaptersKept ==
  status.kind \in LoadErrors =>
    /\ status.ch \in 1..NumChapters
    /\ status.kind = "ErrorNoPudeBajar" => status.http # 0
    /\ status.ch > 1 =>
         /\ acts # <<>>
         /\ \A j \in 1..(status.ch - 1) : j \in DOMAIN acts[1] /\ acts[1][j] # <<>>

(***************************************************************************)
(* C9.  A document with at least one verse-number marker never runs the    *)
(* fallback split, nested markers and markers followed by no text          *)
(* included.                                                               *)
(***************************************************************************)
C9_NoFallbackWithMarkers ==
  (exPc = "done" /\ VerseSups(doc) # <<>>) => ~exFallback

\* the extraction of a document with markers gave fewer verses than it has
\* markers, and the fallback was not run
C9_Witness ==
  /\ exPc = "done"
  /\ VerseSups(doc) # <<>>
  /\ Len(exVerses) < Len(VerseSups(doc))
  /\ ~exFallback

(***************************************************************************)
(* C10.  In the primary strategy a marker's verse text is the cleaned text *)
(* between that marker and the next marker (or the document's end), and a  *)
(* marker with no text before the next marker gives no verse.  Stated as   *)
(* written; the code's walk starts inside the marker, so that the verse    *)
(* text begins with the marker's own number and no marker is dropped for   *)
(* having no text after it.                                                *)
(***************************************************************************)
\* the end of marker sup's subtree and the next marker after sup
TextBetween(d, sup) ==
  LET sups == Range(VerseSups(d))
      after == {j \in sups : j > sup}
      stop == IF after = {} THEN Len(d) + 1
              ELSE CHOOSE x \in after : \A y \in after : x <= y
      ds == Descendants(d, sup)
      from == IF ds = {} THEN sup + 1
              ELSE (CHOOSE x \in ds : \A y \in ds : y <= x) + 1
      texts == [j \in from..(stop - 1) |->
                  IF d[j].kind = "text" THEN cleanText(d[j].value) ELSE <<>>]
  IN  IF from >= stop THEN <<>>
      ELSE cleanText(JoinWith(FilterNonEmpty([i \in 1..(stop - from) |-> texts[from + i - 1]]),
                              <<"sp">>))

RECURSIVE VersesBetween(_, _)
VersesBetween(d, sups) ==
  IF sups = <<>> THEN <<>>
  ELSE LET v == DecimalValue(cleanText(textContent(d, Head(sups))))
           t == TextBetween(d, Head(sups))
       IN  (IF t # <<>> THEN <<[v |-> v, t |-> t]>> ELSE <<>>)
             \o VersesBetween(d, Tail(sups))

C10_VerseTextIsTextBetweenMarkers ==
  (exPc = "collected" /\ VerseSups(doc) # <<>>) =>
    exVerses = VersesBetween(doc, VerseSups(doc))

(***************************************************************************)
(* C11.  The returned list has strictly increasing verse numbers, and no   *)
(* two of its verses have the same number and the same first PrefixLen     *)
(* characters of text.  Stated as written; the code removes a verse only   *)
(* when number and text prefix both repeat, so that two markers with the   *)
(* same number and different texts both stay in the list.                  *)
(***************************************************************************)
DistinctKeys ==
  \A i, j \in 1..Len(exVerses) : i # j => VerseKey(exVerses[i]) # VerseKey(exVerses[j])

C11_StrictlyIncreasingNumbers ==
  exPc = "done" =>
    /\ \A i \in 1..(Len(exVerses) - 1) : exVerses[i].v < exVerses[i + 1].v
    /\ DistinctKeys

(***************************************************************************)
(* C12.  Tokenization is total and lossless: the tokens of the canonical   *)
(* text are non-empty, each made of code points of its own kind only, and  *)
(* their values concatenated in order are the text, so that every code     *)
(* point of the text is in exactly one token.                              *)
(***************************************************************************)
\* the tokens the page renders in mode "txt"
txtTokens == tokenizePreserve(rawText)

C12_TokenizationLossless ==
  /\ JoinWith([i \in 1..Len(txtTokens) |-> txtTokens[i].value], <<>>) = rawText
  /\ \A i \in 1..Len(txtTokens) :
       /\ txtTokens[i].value # <<>>
       /\ \A j \in 1..Len(txtTokens[i].value) :
            (txtTokens[i].kind = "word") <=>
              (IsLetter(txtTokens[i].value[j]) \/ IsMark(txtTokens[i].value[j]))

\* a text of MaxTextLen code points with a mark inside a word, a separator
\* and a second word
C12_Witness ==
  /\ Len(rawText) = MaxTextLen
  /\ Len(txtTokens) = 3
  /\ txtTokens[1].value = <<"th", "acute">>
  /\ txtTokens[2].kind = "sep"
  /\ txtTokens[3].kind = "word"

(***************************************************************************)
(* C13.  Two strings that differ only in combining diacritics have equal   *)
(* comparison keys with ignoreAccents on, and different keys with          *)
(* ignoreAccents off.  The strings are the lines of the mission text, the  *)
(* keys what missionSet computes for them.                                 *)
(***************************************************************************)
RECURSIVE Unaccented(_)
\* the base letters of a string: marks dropped, an accented letter replaced
\* by its letter
Unaccented(s) ==
  IF s = <<>> THEN <<>>
  ELSE IF Head(s) = "acute" THEN Unaccented(Tail(s))
  ELSE << CASE Head(s) = "oA" -> "o" [] Head(s) = "OA" -> "O" [] Head(s) = "eA" -> "e"
            [] OTHER -> Head(s) >> \o Unaccented(Tail(s))

\* a and b have the same base letters and not the same diacritics on them
\* (a precomposed accent and the same accent as a combining mark are the
\* same diacritic)
DifferOnlyInMarks(a, b) == Unaccented(a) = Unaccented(b) /\ NFD(a) # NFD(b)

C13_AccentsIgnoredOnlyWhenAsked ==
  LET lines == SplitLines(missionText)
      keys == MapLines(lines, ignoreAccents)
  IN  \A i, j \in 1..Len(lines) :
        DifferOnlyInMarks(lines[i], lines[j]) =>
          IF ignoreAccents THEN keys[i] = keys[j] ELSE keys[i] # keys[j]

\* with ignoreAccents off, a mission of MaxLines lines with logos unaccented,
\* accented with a precomposed letter and accented with a combining mark
\* has two entries
C13_Witness ==
  /\ ~ignoreAccents
  /\ Len(SplitLines(missionText)) = MaxLines
  /\ \E i, j \in 1..MaxLines :
       /\ DifferOnlyInMarks(SplitLines(missionText)[i], SplitLines(missionText)[j])
       /\ \E k \in 1..MaxLines :
            /\ SplitLines(missionText)[k] # SplitLines(missionText)[j]
            /\ NFD(SplitLines(missionText)[k]) = NFD(SplitLines(missionText)[j])
  /\ Len(missionList) = 2

(***************************************************************************)
(* C14.  Search is substring containment on comparison keys: with the      *)
(* corpus shown, a verse is among the results exactly when the comparison  *)
(* key of the query is contained in the comparison key of the verse's      *)
(* text, under the ignoreAccents flag of the page; the empty query is      *)
(* contained in every key.  Stated as written; the code's keys are not     *)
(* lowercased, and an empty query gives no result at all.                  *)
(***************************************************************************)
MatchesSearch(text, query) ==
  Includes(ComparisonKey(text, ignoreAccents), ComparisonKey(query, ignoreAccents))

C14_SearchIsContainmentOfKeys ==
  (mode = "na28" /\ acts # <<>>) =>
    \A ch \in 1..NumChapters : \A i \in 1..Len(acts[1][ch]) :
      LET x == acts[1][ch][i]
      IN  ([ch |-> ch, v |-> x.v, t |-> x.t] \in Range(searchResults))
            <=> MatchesSearch(x.t, search)

(***************************************************************************)
(* C15.  Day rollover on restore: when the stored day is not today, the    *)
(* ledger is empty in memory and in the stored session after the restore,  *)
(* and mission text, ignoreAccents, mode and chapter have their stored     *)
(* values in both; when the stored day is today, the stored ledger is the  *)
(* ledger in memory.  Stated as written; the code does not take an empty   *)
(* mission text from the stored session and leaves the example in place.   *)
(***************************************************************************)
\* the step is the restore of a stored session
Restores == ~mounted /\ mounted' /\ saved # <<>> /\ savedDay # <<>>

\* mission text, ignoreAccents, mode and chapter are the stored ones, in
\* memory and in the session stored after the step
KeepsStoredSettings ==
  /\ missionText' = saved[1].missionText
  /\ ignoreAccents' = saved[1].ignoreAccents
  /\ mode' = saved[1].mode
  /\ chapter' = saved[1].chapter
  /\ saved'[1].missionText = saved[1].missionText
  /\ saved'[1].ignoreAccents = saved[1].ignoreAccents
  /\ saved'[1].mode = saved[1].mode
  /\ saved'[1].chapter = saved[1].chapter

C15_RolloverClearsOnlyLedger ==
  [][Restores =>
       IF savedDay # <<today>>
       THEN /\ foundCounts' = NoCounts
            /\ saved'[1].foundCounts = NoCounts
            /\ KeepsStoredSettings
       ELSE foundCounts' = saved[1].foundCounts]_vars

(***************************************************************************)
(* C16.  Every corpus load terminates and leaves the session retryable:    *)
(* the loading flag is up for as long as a load awaits a chapter, and      *)
(* whenever it is up it is down again later, whichever way the load ends;  *)
(* the same for the flag of the local text.                                *)
(***************************************************************************)
C16_LoadTerminates ==
  /\ [](loadPc # 0 => loadingActs)
  /\ (loadingActs ~> ~loadingActs)
  /\ (loadingTxt ~> ~loadingTxt)

\* a load that failed to extract the last chapter has ended, and the button
\* is enabled again
C16_Witness ==
  /\ mounted
  /\ mode = "na28"
  /\ ~loadingActs
  /\ loadPc = 0
  /\ status = StatusLine("ErrorNoPudeExtraer", NumChapters, 0)

(***************************************************************************)
(* C17.  The persisted session round-trips: what a mounted page last       *)
(* stored is its in-memory state, empty mission text and empty ledger      *)
(* included, and a restore on the stored day yields the stored mission     *)
(* text, ignoreAccents, ledger, mode and chapter.                          *)
(***************************************************************************)
SessionInMemory ==
  [missionText |-> missionText, ignoreAccents |-> ignoreAccents,
   onlyMission |-> onlyMission, foundCounts |-> foundCounts,
   mode |-> mode, chapter |-> chapter]

RestoredAsStored ==
  /\ missionText' = saved[1].missionText
  /\ ignoreAccents' = saved[1].ignoreAccents
  /\ foundCounts' = saved[1].foundCounts
  /\ mode' = saved[1].mode
  /\ chapter' = saved[1].chapter

C17_SessionRoundTrips ==
  /\ [](mounted => saved = <<SessionInMemory>>)
  /\ [][Restores /\ savedDay = <<today>> => RestoredAsStored]_vars

(***************************************************************************)
(* C18.  The click flash is owned by its click: the timer of a click       *)
(* changes the flash only by clearing it, and only when the flash carries  *)
(* the key of that click, so the timer of an earlier click on another      *)
(* word leaves the flash of a later click alone; and when no timer is      *)
(* pending any more the flash is null.                                     *)
(***************************************************************************)
TimerStep == timers # <<>> /\ timers' = Tail(timers)

C18_FlashOwnedByItsClick ==
  /\ [](timers = <<>> => lastClick = <<>>)
  /\ [][TimerStep =>
          /\ lastClick' # lastClick =>
                lastClick' = <<>> /\ lastClick[1].key = Head(timers)
          /\ lastClick # <<>> /\ lastClick[1].key # Head(timers) =>
                lastClick' = lastClick]_vars

\* two clicks on different words, both timers pending, the flash carrying
\* the later click: the next timer to fire is the one of the earlier click
C18_Witness ==
  /\ Len(timers) = 2
  /\ timers[1] # timers[2]
  /\ lastClick # <<>>
  /\ lastClick[1].key = timers[2]

====
